---- MODULE Spec2Model ----
(***************************************************************************)
(* A model of package decimal (timewasted/go-decimal): the Decimal value,  *)
(* ParseDecimal, Cmp, Add, Sub and the digit helpers printedLength and     *)
(* simplifyNumber.                                                         *)
(*                                                                         *)
(* Unsigned machine words are modelled at a scaled-down width: a uint64    *)
(* of the program is a value in 0 .. 2^WordBits - 1 and every unsigned     *)
(* operation is taken modulo 2^WordBits, exactly as Go wraps a uint64.     *)
(* Strings are sequences of one-character strings.                         *)
(***************************************************************************)
EXTENDS Integers, Sequences, FiniteSets, TLC

(* ------------------------------ bounds ------------------------------- *)

\* Width of the modelled unsigned word (the program's is 64).
WordBits == 7

\* Longest string handed to ParseDecimal in the parser specification.
MaxLen == 4

\* Most arithmetic calls (Add, Sub, Cmp) made on a receiver after the last parse.
MaxOps == 2

(* ----------------------- words and conversions ----------------------- *)

Modulus == 2^WordBits

maxUnsignedInt64 == Modulus - 1

\* A uint64 result: Go's unsigned arithmetic wraps modulo 2^width.
U(x) == x % Modulus

RECURSIVE Pow(_, _)
Pow(base, e) == IF e <= 0 THEN 1 ELSE base * Pow(base, e - 1)

RECURSIVE NatDigits(_)
\* The number of decimal digits of n >= 0 (1 for 0).
NatDigits(n) == IF n < 10 THEN 1 ELSE 1 + NatDigits(n \div 10)

\* The values uint64(f) can take when the float f does not fit a uint64: Go
\* leaves the result implementation-specific. Builds produce zero, the top
\* bit alone, or the saturated maximum.
ConvOutcomes == {0, Modulus \div 2, maxUnsignedInt64}

\* uint64(math.Pow10(n)) on a build whose out-of-range conversion yields cv.
\* math.Pow10 of a negative exponent is a fraction below 1, which truncates to 0.
Pow10U(n, cv) ==
    IF n < 0 THEN 0
    ELSE IF n < NatDigits(maxUnsignedInt64) THEN Pow(10, n)
    ELSE cv

\* printedLength: floor(log10(n)) + 1, and 1 for 0. The float computation is
\* exact over the modelled word range.
printedLength(n) == IF n = 0 THEN 1 ELSE NatDigits(n)

RECURSIVE StripZeros(_)
StripZeros(n) == IF n >= 10 /\ n % 10 = 0 THEN StripZeros(n \div 10) ELSE n

\* simplifyNumber: the reduced value and its printed length.
simplifyNumber(n) ==
    LET m == StripZeros(n) IN [n |-> m, digits |-> printedLength(m)]

(* ------------------------------ Decimal ------------------------------ *)

\* The zero value of the struct, &Decimal{}.
ZeroDecimal ==
    [Valid |-> FALSE, Negative |-> FALSE, numerator |-> 0, denominator |-> 0,
     denominatorDigits |-> 0]

DecimalSeparator == "."

DigitChars == {"0", "1", "2", "3", "4", "5", "6", "7", "8", "9"}

DigitVal(c) ==
    CASE c = "0" -> 0 [] c = "1" -> 1 [] c = "2" -> 2 [] c = "3" -> 3
      [] c = "4" -> 4 [] c = "5" -> 5 [] c = "6" -> 6 [] c = "7" -> 7
      [] c = "8" -> 8 [] c = "9" -> 9

DigitChar(v) == CHOOSE c \in DigitChars : DigitVal(c) = v

RECURSIVE Itoa(_)
\* The %d verb of fmt: the decimal digits of n >= 0.
Itoa(n) == IF n < 10 THEN <<DigitChar(n)>> ELSE Append(Itoa(n \div 10), DigitChar(n % 10))

(* ---------------------------- ParseDecimal --------------------------- *)

\* The index of the first character after an optional sign (1-based).
SignSkip(s) == IF s[1] = "+" \/ s[1] = "-" THEN 2 ELSE 1

\* newN := *n*10 + uint64(v)
Accumulate(n, v) == U(n * 10 + v)

\* The bounds check of the digit loop: the update wrapped.
ParseOverflow(n, newN) == newN < n

\* One digit folded into the active accumulator. st is the loop state: the
\* Decimal under construction, denominatorDigits (-1 before the separator) and
\* the error that ended the loop, if any.
ParseDigit(st, v) ==
    LET inNum == st.dd = -1
        n     == IF inNum THEN st.d.numerator ELSE st.d.denominator
        newN  == Accumulate(n, v)
        dd    == IF inNum THEN st.dd ELSE st.dd + 1
    IN  IF ParseOverflow(n, newN)
        THEN [st EXCEPT !.dd = dd, !.err = "ErrRange"]
        ELSE [st EXCEPT !.dd = dd,
                        !.d = IF inNum
                              THEN [st.d EXCEPT !.numerator = newN, !.Valid = TRUE]
                              ELSE [st.d EXCEPT !.denominator = newN, !.Valid = TRUE]]

\* ParseSeparator without the test for a second separator.
ParseSeparatorAgain(st) == [st EXCEPT !.dd = 0]

\* A separator: a second one is a syntax error.
ParseSeparator(st) ==
    IF st.dd # -1 THEN [st EXCEPT !.err = "ErrSyntax"] ELSE [st EXCEPT !.dd = 0]

RECURSIVE ParseLoop(_, _, _)
ParseLoop(s, i, st) ==
    IF i > Len(s) \/ st.err # "nil" THEN st
    ELSE IF s[i] \in DigitChars THEN ParseLoop(s, i + 1, ParseDigit(st, DigitVal(s[i])))
    ELSE IF s[i] = DecimalSeparator THEN ParseLoop(s, i + 1, ParseSeparator(st))
    ELSE [st EXCEPT !.err = "ErrSyntax"]

\* The end of ParseDecimal: zero is not negative, the digit count is stored,
\* and an input without any digit is a syntax error.
ParseFinish(st) ==
    IF st.err # "nil" THEN [err |-> st.err, d |-> ZeroDecimal]
    ELSE IF st.d.Valid
    THEN [err |-> "nil",
          d |-> [st.d EXCEPT
                   !.Negative = IF st.d.numerator = 0 /\ st.d.denominator = 0
                                THEN FALSE ELSE st.d.Negative,
                   !.denominatorDigits = IF st.dd # -1 THEN st.dd ELSE 0]]
    ELSE [err |-> "ErrSyntax", d |-> ZeroDecimal]

\* ParseDecimal(s): err is "nil", "ErrSyntax" or "ErrRange"; d is the Decimal
\* returned on success (on failure the function returns a nil pointer, shown
\* here as the zero value).
ParseDecimal(s) ==
    IF Len(s) = 0 THEN [err |-> "ErrSyntax", d |-> ZeroDecimal]
    ELSE ParseFinish(
           ParseLoop(s, SignSkip(s),
                     [d |-> [ZeroDecimal EXCEPT !.Negative = (s[1] = "-")],
                      dd |-> -1, err |-> "nil"]))

(* -------------------------------- Cmp -------------------------------- *)

\* Cmp without the test of d1's sign when the signs differ.
CmpSignIgnored(d1, d2) ==
    IF d1.Negative = d2.Negative
    THEN IF d1.numerator = d2.numerator /\ d1.denominator = d2.denominator
         THEN 0
         ELSE LET r == IF d1.numerator > d2.numerator
                          \/ (d1.numerator = d2.numerator
                              /\ d1.denominator > d2.denominator)
                       THEN 1 ELSE -1
              IN  IF d1.Negative THEN -r ELSE r
    ELSE 1

\* d1.Cmp(d2): -1, 0 or +1. The fields are compared as stored.
Cmp(d1, d2) ==
    IF d1.Negative = d2.Negative
    THEN IF d1.numerator = d2.numerator /\ d1.denominator = d2.denominator
         THEN 0
         ELSE LET r == IF d1.numerator > d2.numerator
                          \/ (d1.numerator = d2.numerator
                              /\ d1.denominator > d2.denominator)
                       THEN 1 ELSE -1
              IN  IF d1.Negative THEN -r ELSE r
    ELSE IF d1.Negative THEN -1 ELSE 1

(* -------------------------------- Add -------------------------------- *)

\* The bounds checks on entry to Add, on the operands as stored.
AddBoundsFail(d1, d2) ==
    \/ U(d1.denominator + d2.denominator) < d1.denominator
    \/ U(d1.numerator + d2.numerator) < d1.numerator

\* AddAlign for an alignment that scales d2Denominator but leaves
\* d2DenomDigits at d2's own digit count.
AddAlignOwnDigits(d1, d2, cv) ==
    IF d1.denominatorDigits > d2.denominatorDigits
    THEN [c |-> d1,
          d2Denominator |-> U(d2.denominator
                              * Pow10U(d1.denominatorDigits - d2.denominatorDigits, cv)),
          d2DenomDigits |-> d2.denominatorDigits]
    ELSE IF d2.denominatorDigits > d1.denominatorDigits
    THEN [c |-> [d1 EXCEPT
                   !.denominator =
                       U(d1.denominator
                         * Pow10U(d2.denominatorDigits - d1.denominatorDigits, cv)),
                   !.denominatorDigits = d2.denominatorDigits],
          d2Denominator |-> d2.denominator,
          d2DenomDigits |-> d2.denominatorDigits]
    ELSE [c |-> d1, d2Denominator |-> d2.denominator,
          d2DenomDigits |-> d2.denominatorDigits]

\* "Ensure equal length denominators": the scratch copy of d1, and d2's
\* denominator and digit count as aligned.
AddAlign(d1, d2, cv) ==
    IF d1.denominatorDigits > d2.denominatorDigits
    THEN [c |-> d1,
          d2Denominator |-> U(d2.denominator
                              * Pow10U(d1.denominatorDigits - d2.denominatorDigits, cv)),
          d2DenomDigits |-> d1.denominatorDigits]
    ELSE IF d2.denominatorDigits > d1.denominatorDigits
    THEN [c |-> [d1 EXCEPT
                   !.denominator =
                       U(d1.denominator
                         * Pow10U(d2.denominatorDigits - d1.denominatorDigits, cv)),
                   !.denominatorDigits = d2.denominatorDigits],
          d2Denominator |-> d2.denominator,
          d2DenomDigits |-> d2.denominatorDigits]
    ELSE [c |-> d1, d2Denominator |-> d2.denominator,
          d2DenomDigits |-> d2.denominatorDigits]

\* The carry of the equal-sign branch. c holds the raw sums. The result is the
\* scratch copy and how the branch ended: "nil", "ErrRange", or "panic" for the
\* integer division by zero.
AddCarry(c, d2DenomDigits, cv) ==
    IF printedLength(c.denominator) > d2DenomDigits
    THEN LET mod == Pow10U(c.denominatorDigits, cv) IN
         IF mod = 0 THEN [err |-> "panic", c |-> c]
         ELSE LET num == U(c.numerator + (c.denominator \div mod))
                  cc  == [c EXCEPT !.numerator = num,
                                   !.denominator = c.denominator % mod]
              IN  IF num < c.numerator THEN [err |-> "ErrRange", c |-> cc]
                  ELSE [err |-> "nil", c |-> cc]
    ELSE [err |-> "nil", c |-> c]

\* The branch for operands of equal sign.
AddSameSign(al, d2, cv) ==
    AddCarry([al.c EXCEPT !.denominator = U(al.c.denominator + al.d2Denominator),
                          !.numerator = U(al.c.numerator + d2.numerator)],
             al.d2DenomDigits, cv)

\* The subtraction of the opposite-sign branch, r being what d1copy.Cmp(d2)
\* returned: the parts of the scratch copy, and whether neg1 is flipped.
AddSubtract(al, d2, r) ==
    IF r >= 0
    THEN [c |-> [al.c EXCEPT !.denominator = U(al.c.denominator - al.d2Denominator),
                             !.numerator = U(al.c.numerator - d2.numerator)],
          flip |-> FALSE]
    ELSE [c |-> [al.c EXCEPT !.denominator = U(al.d2Denominator - al.c.denominator),
                             !.numerator = U(d2.numerator - al.c.numerator)],
          flip |-> TRUE]

\* The branch for operands of opposite sign: both signs are cleared, the
\* scratch copy is compared with d2 as stored, the parts are subtracted and
\* the signs are put back.
AddDiffSign(al, d2) ==
    LET s == AddSubtract(al, d2, Cmp([al.c EXCEPT !.Negative = FALSE],
                                     [d2 EXCEPT !.Negative = FALSE]))
    IN  [err |-> "nil",
         c |-> [s.c EXCEPT !.Negative = IF s.flip THEN ~al.c.Negative
                                                  ELSE al.c.Negative]]

\* "Zero is not negative."
ZeroNotNegative(c) ==
    IF c.numerator = 0 /\ c.denominator = 0 /\ c.Negative
    THEN [c EXCEPT !.Negative = FALSE] ELSE c

\* Simplify for a simplifyNumber that strips no trailing zero.
SimplifyKeepZeros(c) ==
    [c EXCEPT !.denominatorDigits = printedLength(c.denominator)]

\* "Simplify the number": the denominator and its digit count are replaced by
\* simplifyNumber's results.
Simplify(c) ==
    LET s == simplifyNumber(c.denominator)
    IN  [c EXCEPT !.denominator = s.n, !.denominatorDigits = s.digits]

\* AddReturn for an Add that works on the receiver itself instead of a copy:
\* what was computed before the error stays in d1.
AddReturnInPlace(d1, res) ==
    IF res.err # "nil" THEN [err |-> res.err, d |-> res.c]
    ELSE [err |-> "nil", d |-> Simplify(ZeroNotNegative(res.c))]

\* How Add returns: on an error the receiver d1 was never written; on success
\* the scratch copy is normalised, simplified and assigned to *d1.
AddReturn(d1, res) ==
    IF res.err # "nil" THEN [err |-> res.err, d |-> d1]
    ELSE [err |-> "nil", d |-> Simplify(ZeroNotNegative(res.c))]

\* The computation of Add between the entry checks and the return: the
\* scratch copy before "zero is not negative" and the simplification, and how
\* the branch ended.
AddCompute(d1, d2, cv) ==
    LET al == AddAlign(d1, d2, cv) IN
    IF al.c.Negative = d2.Negative
    THEN AddSameSign(al, d2, cv)
    ELSE AddDiffSign(al, d2)

\* AddSignsBack for an Add that forgets to put the signs back.
AddSignsLeftCleared(cleared, neg2) == cleared

\* d1copy.Negative, d2.Negative = neg1, neg2: d2, whose sign the opposite-sign
\* branch had cleared, gets its saved sign back.
AddSignsBack(cleared, neg2) == [cleared EXCEPT !.Negative = neg2]

\* The argument as Add leaves it: only the opposite-sign branch writes it.
AddArgument(d1, d2) ==
    IF d1.Negative = d2.Negative THEN d2
    ELSE AddSignsBack([d2 EXCEPT !.Negative = FALSE], d2.Negative)

\* NotValid for a guard that looks at the receiver only.
NotValidReceiverOnly(d1, d2) == ~d1.Valid

\* The guard on entry to Add and Sub: either operand is not valid.
NotValid(d1, d2) == ~d1.Valid \/ ~d2.Valid

\* d1.Add(d2): the error returned, the receiver afterwards (d) and the
\* argument afterwards (d2).
Add(d1, d2, cv) ==
    IF NotValid(d1, d2) THEN [err |-> "ErrNotValid", d |-> d1, d2 |-> d2]
    ELSE IF AddBoundsFail(d1, d2) THEN [err |-> "ErrRange", d |-> d1, d2 |-> d2]
    ELSE LET o == AddReturn(d1, AddCompute(d1, d2, cv))
         IN  [err |-> o.err, d |-> o.d, d2 |-> AddArgument(d1, d2)]

(* -------------------------------- Sub -------------------------------- *)

\* The alignment of Sub's branch for two non-negative operands, done on the
\* receiver itself.
SubAlign(d1, d2, cv) ==
    IF d1.denominatorDigits > d2.denominatorDigits
    THEN [c |-> d1,
          d2Denominator |-> U(d2.denominator
                              * Pow10U(d1.denominatorDigits - d2.denominatorDigits, cv))]
    ELSE IF d2.denominatorDigits > d1.denominatorDigits
    THEN [c |-> [d1 EXCEPT
                   !.denominator =
                       U(d1.denominator
                         * Pow10U(d2.denominatorDigits - d1.denominatorDigits, cv)),
                   !.denominatorDigits = d2.denominatorDigits],
          d2Denominator |-> d2.denominator]
    ELSE [c |-> d1, d2Denominator |-> d2.denominator]

\* d1 >= d2 by Cmp: subtract d2's parts as stored, and borrow from the
\* numerator if the denominator wrapped.
SubLarger(c, d2, cv) ==
    LET den == U(c.denominator - d2.denominator)
        num == U(c.numerator - d2.numerator)
    IN  IF den > c.denominator
        THEN [c EXCEPT
                !.denominator =
                    U(Pow10U(c.denominatorDigits, cv) - (maxUnsignedInt64 - den) - 1),
                !.numerator = U(num - 1)]
        ELSE [c EXCEPT !.denominator = den, !.numerator = num]

\* d1 < d2 by Cmp: subtract the other way round and flip the sign.
SubSmaller(c, d2Denominator, d2) ==
    [c EXCEPT !.denominator = U(d2Denominator - c.denominator),
              !.numerator = U(d2.numerator - c.numerator),
              !.Negative = ~c.Negative]

\* The branch of Sub for two non-negative operands, before the simplification.
SubCompute(d1, d2, cv) ==
    LET al == SubAlign(d1, d2, cv) IN
    IF Cmp(al.c, d2) >= 0
    THEN SubLarger(al.c, d2, cv)
    ELSE SubSmaller(al.c, al.d2Denominator, d2)

\* The branch of Sub for two non-negative operands.
SubNonNegative(d1, d2, cv) == Simplify(SubCompute(d1, d2, cv))

\* d2.Negative = d2Neg, after the call of Add.
SubSignBack(d2, d2Neg) == [d2 EXCEPT !.Negative = d2Neg]

\* The other branch: d2's sign is set to d1's for the call of Add and put
\* back afterwards. A panic inside Add unwinds past the statement that puts
\* it back.
SubViaAdd(d1, d2, cv) ==
    LET o == Add(d1, [d2 EXCEPT !.Negative = d1.Negative], cv) IN
    IF o.err = "panic" THEN o
    ELSE [o EXCEPT !.d2 = SubSignBack(o.d2, d2.Negative)]

\* d1.Sub(d2): the error returned, the receiver afterwards (d) and the
\* argument afterwards (d2).
Sub(d1, d2, cv) ==
    IF NotValid(d1, d2) THEN [err |-> "ErrNotValid", d |-> d1, d2 |-> d2]
    ELSE IF ~d1.Negative /\ ~d2.Negative
    THEN [err |-> "nil", d |-> SubNonNegative(d1, d2, cv), d2 |-> d2]
    ELSE SubViaAdd(d1, d2, cv)

(* ------------------------------- String ----------------------------- *)

ThousandsSeparator == ","

\* A slice length: never negative.
Max0(n) == IF n < 0 THEN 0 ELSE n

RECURSIVE Zeros(_)
\* n characters "0".
Zeros(n) == IF n <= 0 THEN << >> ELSE <<"0">> \o Zeros(n - 1)

\* ZeroPadded for a format without the zero-padded width.
Unpadded(n, width) == Itoa(n)

\* The verb %0Nd of fmt, N being width: the digits of n, with zeros on the
\* left up to width characters; with width 0 the verb is %00d and pads nothing.
ZeroPadded(n, width) == Zeros(width - Len(Itoa(n))) \o Itoa(n)

\* The "-" that String and FormattedString put in front of the format.
SignPrefix(d) == IF d.Negative THEN <<"-">> ELSE << >>

\* d.String(): the format %d%c%0Nd applied to the numerator, the decimal
\* separator and the denominator, N being denominatorDigits.
String(d) ==
    SignPrefix(d) \o Itoa(d.numerator) \o <<DecimalSeparator>>
        \o ZeroPadded(d.denominator, d.denominatorDigits)

\* PnLen for a buffer that always has room for len/3 separators.
PnLenOneMore(len) == len + len \div 3

\* The length of the buffer pn for an integer part of len digits.
PnLen(len) ==
    IF len % 3 # 0 THEN len + len \div 3 ELSE len + len \div 3 - 1

\* A new byte slice: n zero bytes.
MakeBytes(n) == [k \in 1 .. n |-> "NUL"]

\* copy(pn[pnIdx:], src): the bytes of src that fit are written from offset
\* pnIdx on.
CopyInto(pn, pnIdx, src) ==
    [k \in 1 .. Len(pn) |->
        IF k > pnIdx /\ k <= pnIdx + Len(src) THEN src[k - pnIdx] ELSE pn[k]]

\* What copy returns: the number of bytes written.
Copied(pn, pnIdx, src) ==
    IF Len(src) <= Len(pn) - pnIdx THEN Len(src) ELSE Max0(Len(pn) - pnIdx)

RECURSIVE GroupLoop(_, _, _, _, _)
\* The loop of FormattedString, for i := len(numerator) % 3; i <= len; i += 3:
\* the digits from start to i are copied into pn, followed by a separator
\* unless they are the last ones.
GroupLoop(numerator, i, start, pn, pnIdx) ==
    IF i > Len(numerator) THEN pn
    ELSE IF i = 0 THEN GroupLoop(numerator, i + 3, start, pn, pnIdx)
    ELSE LET digits == SubSeq(numerator, start + 1, i)
             pn1    == CopyInto(pn, pnIdx, digits)
             idx1   == pnIdx + Copied(pn, pnIdx, digits)
         IN  IF i # Len(numerator)
             THEN GroupLoop(numerator, i + 3, i,
                            CopyInto(pn1, idx1, <<ThousandsSeparator>>),
                            idx1 + Copied(pn1, idx1, <<ThousandsSeparator>>))
             ELSE GroupLoop(numerator, i + 3, i, pn1, idx1)

\* d.FormattedString(): String() below 1000, else the grouped integer part
\* in the format %s%c%0Nd.
FormattedString(d) ==
    IF d.numerator < 1000 THEN String(d)
    ELSE LET numerator == Itoa(d.numerator)
             pn == GroupLoop(numerator, Len(numerator) % 3, 0,
                             MakeBytes(PnLen(Len(numerator))), 0)
         IN  SignPrefix(d) \o pn \o <<DecimalSeparator>>
                 \o ZeroPadded(d.denominator, d.denominatorDigits)

(* ------------------------- inputs of the model ----------------------- *)

\* The characters of the strings handed to ParseDecimal in the parser
\* specification: signs, the separator, some digits and a foreign character.
ParseChars == {"+", "-", ".", "0", "1", "2", "7", "8", "x"}

RECURSIVE StringsUpTo(_)
\* Every string over ParseChars of length at most n.
StringsUpTo(n) ==
    IF n = 0 THEN {<< >>}
    ELSE LET shorter == StringsUpTo(n - 1)
         IN  shorter \cup {Append(s, c) : s \in shorter, c \in ParseChars}

\* The operand strings of the arithmetic specification: sign, integer digits
\* and, after the separator, fractional digits.
OperandSigns == {<< >>, <<"-">>}

\* The largest integer part to which one more can still be added.
OperandInts == {<<"0">>, <<"1">>, Itoa(maxUnsignedInt64 - 1)}

OperandFracs ==
    {<< >>, <<".", "0">>, <<".", "5">>, <<".", "9">>, <<".", "0", "5">>,
     <<".", "4", "5">>, <<".", "5", "0">>, <<".", "9", "9">>,
     <<".", "0", "9", "4">>}

OperandStrings == {sg \o i \o f : sg \in OperandSigns, i \in OperandInts, f \in OperandFracs}

\* The integer parts rendered in the rendering specification: one of every
\* length from 1 to 10 digits, and the neighbours of 1000.
FormatNumerators ==
    {0, 1, 12, 123, 999, 1000, 1001, 1234, 12345, 123456, 1234567, 12345678,
     123456789, 1234567890}

\* Their fractional parts, <<denominator, denominatorDigits>>: none, .0, .01,
\* .5 and .50.
FormatFracs == {<<0, 0>>, <<0, 1>>, <<1, 2>>, <<5, 1>>, <<50, 2>>}

(* ------------------------------- state ------------------------------- *)

VARIABLES
    input,  \* the string handed to ParseDecimal in the parser specification
    res,    \* what that call returned: [err, d]
    a,      \* the receiver Decimal of the arithmetic calls
    b,      \* the argument Decimal of the arithmetic calls
    calls,  \* the arithmetic calls made on a and b since they were parsed, oldest first:
            \* [op, err, recv and arg (the receiver and the argument before the
            \* call), r (Cmp's result)]
    cv,     \* what this build's uint64(float) yields for a float out of range
    shown,  \* the rendering made of res.d: [fn, s], fn being "none" before it
    gor,    \* the goroutines of the concurrent specification: their position
            \* and local variables
    seen    \* the signs a concurrent reader has read from b

vars == <<input, res, a, b, calls, cv, shown, gor, seen>>

\* No rendering yet.
NotShown == [fn |-> "none", s |-> << >>]

Init ==
    /\ input = << >>
    /\ res = [err |-> "none", d |-> ZeroDecimal]
    /\ a = ZeroDecimal
    /\ b = ZeroDecimal
    /\ calls = << >>
    /\ cv \in ConvOutcomes
    /\ shown = NotShown
    /\ gor = << >>
    /\ seen = {}

\* a, err := ParseDecimal(s), with err == nil: a new receiver.
ParseA ==
    \E s \in OperandStrings :
        LET p == ParseDecimal(s) IN
        /\ calls = << >>
        /\ p.err = "nil"
        /\ a' = p.d
        /\ calls' = << >>
        /\ UNCHANGED <<input, res, b, cv, shown, gor, seen>>

\* b, err := ParseDecimal(s), with err == nil: a new argument.
ParseB ==
    \E s \in OperandStrings :
        LET p == ParseDecimal(s) IN
        /\ calls = << >>
        /\ p.err = "nil"
        /\ b' = p.d
        /\ calls' = << >>
        /\ UNCHANGED <<input, res, a, cv, shown, gor, seen>>

\* b.Valid = false: Valid is an exported field, and a client may clear it on
\* a Decimal that holds a number.
InvalidateB ==
    /\ calls = << >>
    /\ b.Valid
    /\ b' = [b EXCEPT !.Valid = FALSE]
    /\ UNCHANGED <<input, res, a, calls, cv, shown, gor, seen>>

\* err := a.Add(b)
AddCall ==
    /\ Len(calls) < MaxOps
    /\ LET o == Add(a, b, cv) IN
       /\ a' = o.d
       /\ b' = o.d2
       /\ calls' = Append(calls, [op |-> "Add", err |-> o.err, recv |-> a,
                                  arg |-> b, r |-> 0])
    /\ UNCHANGED <<input, res, cv, shown, gor, seen>>

\* err := a.Sub(b)
SubCall ==
    /\ Len(calls) < MaxOps
    /\ LET o == Sub(a, b, cv) IN
       /\ a' = o.d
       /\ b' = o.d2
       /\ calls' = Append(calls, [op |-> "Sub", err |-> o.err, recv |-> a,
                                  arg |-> b, r |-> 0])
    /\ UNCHANGED <<input, res, cv, shown, gor, seen>>

\* r := a.Cmp(b)
CmpCall ==
    /\ Len(calls) < MaxOps
    /\ calls' = Append(calls, [op |-> "Cmp", err |-> "nil", recv |-> a,
                               arg |-> b, r |-> Cmp(a, b)])
    /\ UNCHANGED <<input, res, a, b, cv, shown, gor, seen>>

Next == ParseA \/ ParseB \/ InvalidateB \/ AddCall \/ SubCall \/ CmpCall

Spec == Init /\ [][Next]_vars

\* The parser on its own: the input is any string of the bounded set and the
\* one step applies ParseDecimal to it.
InitParse ==
    /\ input \in StringsUpTo(MaxLen)
    /\ res = [err |-> "none", d |-> ZeroDecimal]
    /\ a = ZeroDecimal
    /\ b = ZeroDecimal
    /\ calls = << >>
    /\ cv \in ConvOutcomes
    /\ shown = NotShown
    /\ gor = << >>
    /\ seen = {}

\* res := ParseDecimal(input)
ParseCall ==
    /\ res.err = "none"
    /\ res' = ParseDecimal(input)
    /\ UNCHANGED <<input, a, b, calls, cv, shown, gor, seen>>

\* s := res.d.String(), on the Decimal a successful ParseDecimal returned.
StringCall ==
    /\ res.err = "nil"
    /\ shown = NotShown
    /\ shown' = [fn |-> "String", s |-> String(res.d)]
    /\ UNCHANGED <<input, res, a, b, calls, cv, gor, seen>>

\* s := res.d.FormattedString(), likewise.
FormattedStringCall ==
    /\ res.err = "nil"
    /\ shown = NotShown
    /\ shown' = [fn |-> "FormattedString", s |-> FormattedString(res.d)]
    /\ UNCHANGED <<input, res, a, b, calls, cv, gor, seen>>

NextParse == ParseCall \/ StringCall \/ FormattedStringCall

SpecParse == InitParse /\ [][NextParse]_vars

\* The rendering on its own. String and FormattedString do no arithmetic on
\* the parts, so the Decimals rendered here have integer parts of the
\* magnitudes ParseDecimal returns at the real word width.
InitFormat ==
    /\ input = << >>
    /\ res \in {[err |-> "nil",
                  d   |-> [Valid |-> TRUE, Negative |-> neg, numerator |-> n,
                           denominator |-> f[1], denominatorDigits |-> f[2]]] :
                    neg \in BOOLEAN, n \in FormatNumerators, f \in FormatFracs}
    /\ a = ZeroDecimal
    /\ b = ZeroDecimal
    /\ calls = << >>
    /\ cv \in ConvOutcomes
    /\ shown = NotShown
    /\ gor = << >>
    /\ seen = {}

NextFormat == StringCall \/ FormattedStringCall

SpecFormat == InitFormat /\ [][NextFormat]_vars

(* ----------------- concurrent calls sharing the argument ------------- *)

\* Two goroutines, each making one call on a receiver of its own with the
\* shared argument b, and a reader of b.Negative.
Goroutines == {1, 2}

\* The operands of the concurrent calls.
ConcStrings ==
    {<<"1", ".", "5">>, <<"-", "1", ".", "5">>, <<"0", ".", "4", "5">>,
     <<"-", "0", ".", "9">>}

ConcDecimals == {ParseDecimal(s).d : s \in ConcStrings}

\* A goroutine about to call d1.op(d2): its position, its receiver d1 (d10
\* and d20 keep the operands as they were at the call), and the locals of Add
\* and Sub: al holds d1copy, d2Denominator and d2DenomDigits.
NewCall(op, d1, d2) ==
    [pc    |-> IF op = "Add" THEN "AddEntry" ELSE "SubEntry",
     op    |-> op,
     d1    |-> d1,
     d10   |-> d1,
     d20   |-> d2,
     al    |-> [c |-> d1, d2Denominator |-> d2.denominator,
                d2DenomDigits |-> d2.denominatorDigits],
     neg1  |-> FALSE,
     neg2  |-> FALSE,
     d2Neg |-> FALSE,
     err   |-> "none"]

InitConc ==
    /\ input = << >>
    /\ res = [err |-> "none", d |-> ZeroDecimal]
    /\ a = ZeroDecimal
    /\ b \in ConcDecimals
    /\ calls = << >>
    /\ cv \in ConvOutcomes
    /\ shown = NotShown
    /\ gor \in [Goroutines -> {NewCall(op, d, b) :
                                 op \in {"Add", "Sub"}, d \in ConcDecimals}]
    /\ seen = {}

\* Where a goroutine continues when Add returns: in Sub, if Sub made the call.
AddReturnsTo(l) == IF l.op = "Sub" THEN "SubRestoreSign" ELSE "done"

\* Add up to the alignment: the entry checks, the copy and the alignment read
\* d2.Valid and d2's parts, which no call writes.
AddEntry(g) ==
    /\ gor[g].pc = "AddEntry"
    /\ LET l == gor[g] IN
       gor' = [gor EXCEPT ![g] =
                 IF NotValid(l.d1, b)
                 THEN [l EXCEPT !.err = "ErrNotValid", !.pc = AddReturnsTo(l)]
                 ELSE IF AddBoundsFail(l.d1, b)
                 THEN [l EXCEPT !.err = "ErrRange", !.pc = AddReturnsTo(l)]
                 ELSE [l EXCEPT !.al = AddAlign(l.d1, b, cv), !.pc = "AddBranch"]]
    /\ UNCHANGED <<input, res, a, b, calls, cv, shown, seen>>

\* if d1copy.Negative == d2.Negative: a read of d2.Negative; the equal-sign
\* branch follows in the same step, as it reads no sign.
AddBranch(g) ==
    /\ gor[g].pc = "AddBranch"
    /\ LET l == gor[g]
           r == AddSameSign(l.al, b, cv)
       IN  gor' = [gor EXCEPT ![g] =
                     IF l.al.c.Negative # b.Negative
                     THEN [l EXCEPT !.pc = "AddSaveSigns"]
                     ELSE IF r.err = "nil"
                     THEN [l EXCEPT !.al.c = r.c, !.pc = "AddCommit"]
                     ELSE IF r.err = "panic"
                     THEN [l EXCEPT !.err = "panic", !.pc = "done"]
                     ELSE [l EXCEPT !.err = r.err, !.pc = AddReturnsTo(l)]]
    /\ UNCHANGED <<input, res, a, b, calls, cv, shown, seen>>

\* neg1, neg2 := d1copy.Negative, d2.Negative
AddSaveSigns(g) ==
    /\ gor[g].pc = "AddSaveSigns"
    /\ gor' = [gor EXCEPT ![g].neg1 = gor[g].al.c.Negative,
                          ![g].neg2 = b.Negative,
                          ![g].pc = "AddClearSigns"]
    /\ UNCHANGED <<input, res, a, b, calls, cv, shown, seen>>

\* d1copy.Negative, d2.Negative = false, false: a write to the shared argument.
AddClearSigns(g) ==
    /\ gor[g].pc = "AddClearSigns"
    /\ gor' = [gor EXCEPT ![g].al.c.Negative = FALSE, ![g].pc = "AddCompare"]
    /\ b' = [b EXCEPT !.Negative = FALSE]
    /\ UNCHANGED <<input, res, a, calls, cv, shown, seen>>

\* d1copy.Cmp(d2), which reads d2.Negative as it is now, and the subtraction.
AddCompare(g) ==
    /\ gor[g].pc = "AddCompare"
    /\ LET l == gor[g]
           s == AddSubtract(l.al, b, Cmp(l.al.c, b))
       IN  gor' = [gor EXCEPT ![g].al.c = s.c,
                              ![g].neg1 = IF s.flip THEN ~l.neg1 ELSE l.neg1,
                              ![g].pc = "AddRestoreSigns"]
    /\ UNCHANGED <<input, res, a, b, calls, cv, shown, seen>>

\* d1copy.Negative, d2.Negative = neg1, neg2: the second write.
AddRestoreSigns(g) ==
    /\ gor[g].pc = "AddRestoreSigns"
    /\ gor' = [gor EXCEPT ![g].al.c.Negative = gor[g].neg1, ![g].pc = "AddCommit"]
    /\ b' = AddSignsBack(b, gor[g].neg2)
    /\ UNCHANGED <<input, res, a, calls, cv, shown, seen>>

\* Zero is not negative, the simplification, *d1 = d1copy and return nil.
AddCommit(g) ==
    /\ gor[g].pc = "AddCommit"
    /\ LET l == gor[g]
           o == AddReturn(l.d1, [err |-> "nil", c |-> l.al.c])
       IN  gor' = [gor EXCEPT ![g].d1 = o.d, ![g].err = o.err,
                              ![g].pc = AddReturnsTo(l)]
    /\ UNCHANGED <<input, res, a, b, calls, cv, shown, seen>>

\* Sub's entry check and if !d1.Negative && !d2.Negative: a read of d2.Negative.
SubEntry(g) ==
    /\ gor[g].pc = "SubEntry"
    /\ LET l == gor[g] IN
       gor' = [gor EXCEPT ![g] =
                 IF NotValid(l.d1, b)
                 THEN [l EXCEPT !.err = "ErrNotValid", !.pc = "done"]
                 ELSE IF ~l.d1.Negative /\ ~b.Negative
                 THEN [l EXCEPT !.pc = "SubInPlace"]
                 ELSE [l EXCEPT !.pc = "SubSaveSign"]]
    /\ UNCHANGED <<input, res, a, b, calls, cv, shown, seen>>

\* The branch for non-negative operands, on d1 itself; its d1.Cmp(d2) reads
\* d2.Negative as it is now.
SubInPlace(g) ==
    /\ gor[g].pc = "SubInPlace"
    /\ gor' = [gor EXCEPT ![g].d1 = SubNonNegative(gor[g].d1, b, cv),
                          ![g].err = "nil",
                          ![g].pc = "done"]
    /\ UNCHANGED <<input, res, a, b, calls, cv, shown, seen>>

\* d2Neg := d2.Negative
SubSaveSign(g) ==
    /\ gor[g].pc = "SubSaveSign"
    /\ gor' = [gor EXCEPT ![g].d2Neg = b.Negative, ![g].pc = "SubSetSign"]
    /\ UNCHANGED <<input, res, a, b, calls, cv, shown, seen>>

\* d2.Negative = d1.Negative, a write to the shared argument, and the call of Add.
SubSetSign(g) ==
    /\ gor[g].pc = "SubSetSign"
    /\ gor' = [gor EXCEPT ![g].pc = "AddEntry"]
    /\ b' = [b EXCEPT !.Negative = gor[g].d1.Negative]
    /\ UNCHANGED <<input, res, a, calls, cv, shown, seen>>

\* d2.Negative = d2Neg, the second write, and Sub returns what Add returned.
SubRestoreSign(g) ==
    /\ gor[g].pc = "SubRestoreSign"
    /\ gor' = [gor EXCEPT ![g].pc = "done",
                          ![g].err = IF gor[g].err = "none" THEN "nil" ELSE gor[g].err]
    /\ b' = SubSignBack(b, gor[g].d2Neg)
    /\ UNCHANGED <<input, res, a, calls, cv, shown, seen>>

\* A third goroutine reads b.Negative.
ReadSign ==
    /\ gor # << >>
    /\ b.Negative \notin seen
    /\ seen' = seen \cup {b.Negative}
    /\ UNCHANGED <<input, res, a, b, calls, cv, shown, gor>>

NextConc ==
    \/ \E g \in Goroutines :
          \/ AddEntry(g) \/ AddBranch(g) \/ AddSaveSigns(g) \/ AddClearSigns(g)
          \/ AddCompare(g) \/ AddRestoreSigns(g) \/ AddCommit(g)
          \/ SubEntry(g) \/ SubInPlace(g) \/ SubSaveSign(g) \/ SubSetSign(g)
          \/ SubRestoreSign(g)
    \/ ReadSign

SpecConc == InitConc /\ [][NextConc]_vars

(* ----------------------- vocabulary of the claims -------------------- *)

Max(x, y) == IF x >= y THEN x ELSE y

\* The receiver as call i of calls left it.
After(i) == IF i = Len(calls) THEN a ELSE calls[i + 1].recv

\* The argument as call i of calls left it.
ArgAfter(i) == IF i = Len(calls) THEN b ELSE calls[i + 1].arg

\* The number a Decimal denotes, sign x (numerator + denominator / 10^digits),
\* as an exact integer number of units of 10^-w, for w >= d.denominatorDigits.
Val(d, w) ==
    (IF d.Negative THEN -1 ELSE 1)
    * (d.numerator * Pow(10, w) + d.denominator * Pow(10, w - d.denominatorDigits))

\* A width at which three Decimals can be compared exactly.
Width(x, y, z) ==
    Max(x.denominatorDigits, Max(y.denominatorDigits, z.denominatorDigits))

\* x denotes y + z.
IsSum(x, y, z) ==
    LET w == Width(x, y, z) IN Val(x, w) = Val(y, w) + Val(z, w)

\* x denotes y - z.
IsDifference(x, y, z) ==
    LET w == Width(x, y, z) IN Val(x, w) = Val(y, w) - Val(z, w)

\* Same sign, same integer part, same fractional value; trailing fractional
\* zeros may differ.
SameNumber(x, y) ==
    LET w == Max(x.denominatorDigits, y.denominatorDigits) IN
    /\ x.Negative = y.Negative
    /\ x.numerator = y.numerator
    /\ x.denominator * Pow(10, w - x.denominatorDigits)
         = y.denominator * Pow(10, w - y.denominatorDigits)

Sign(n) == IF n < 0 THEN -1 ELSE IF n = 0 THEN 0 ELSE 1

\* The grammar of a Decimal string: an optional sign at position 1, then only
\* digits and at most one separator, with at least one digit.
WellFormed(s) ==
    /\ Len(s) > 0
    /\ LET from == IF s[1] \in {"+", "-"} THEN 2 ELSE 1 IN
       /\ \A i \in from .. Len(s) : s[i] \in DigitChars \cup {DecimalSeparator}
       /\ Cardinality({i \in from .. Len(s) : s[i] = DecimalSeparator}) <= 1
       /\ \E i \in from .. Len(s) : s[i] \in DigitChars

\* The position of the first separator of s, or Len(s) + 1.
SepAt(s) ==
    IF \E i \in 1 .. Len(s) : s[i] = DecimalSeparator
    THEN CHOOSE i \in 1 .. Len(s) :
           /\ s[i] = DecimalSeparator
           /\ \A j \in 1 .. i - 1 : s[j] # DecimalSeparator
    ELSE Len(s) + 1

RECURSIVE DigitsValue(_, _, _)
\* The number, as an unbounded integer, that the digits among s[lo..hi] denote.
DigitsValue(s, lo, hi) ==
    IF hi < lo THEN 0
    ELSE IF s[hi] \in DigitChars
    THEN DigitsValue(s, lo, hi - 1) * 10 + DigitVal(s[hi])
    ELSE DigitsValue(s, lo, hi - 1)

\* The numbers the integer digits and the fractional digits of s denote.
ExactInt(s) == DigitsValue(s, 1, SepAt(s) - 1)

ExactFrac(s) == DigitsValue(s, SepAt(s) + 1, Len(s))

\* The number of fractional digits written in s.
FracWidth(s) == Cardinality({i \in SepAt(s) + 1 .. Len(s) : s[i] \in DigitChars})

InRange(s) == ExactInt(s) <= maxUnsignedInt64 /\ ExactFrac(s) <= maxUnsignedInt64

IsZero(d) == d.Valid /\ d.numerator = 0 /\ d.denominator = 0

(* -------------------------------- claims ----------------------------- *)

\* C1: whenever Add or Sub returns an error (ErrNotValid or a range error),
\* every field of the receiver equals its value immediately before the call.
C1_ReceiverUnchangedOnError ==
    \A i \in 1 .. Len(calls) :
        (calls[i].op \in {"Add", "Sub"} /\ calls[i].err \in {"ErrNotValid", "ErrRange"})
            => After(i) = calls[i].recv

\* C1 witness: an Add that passed the entry checks, worked on its scratch copy
\* and then failed the carry check, and a Sub that failed the same way.
C1_Witness ==
    /\ Len(calls) = 2
    /\ calls[1].op = "Add" /\ calls[1].err = "ErrRange"
    /\ ~AddBoundsFail(calls[1].recv, calls[1].arg)
    /\ calls[2].op = "Sub" /\ calls[2].err = "ErrRange"
    /\ a.Negative /\ b.Negative

\* C2: for parsed a and b, if a.Add(b) returns nil the receiver afterwards
\* denotes exactly a + b.
C2_AddIsExactSum ==
    (Len(calls) >= 1 /\ calls[1].op = "Add" /\ calls[1].err = "nil")
        => IsSum(After(1), calls[1].recv, calls[1].arg)

\* C3: for parsed a and b, if a.Sub(b) returns nil the receiver afterwards
\* denotes exactly a - b.
C3_SubIsExactDifference ==
    (Len(calls) >= 1 /\ calls[1].op = "Sub" /\ calls[1].err = "nil")
        => IsDifference(After(1), calls[1].recv, calls[1].arg)

\* C4: ParseDecimal returns a range error for every well-formed input whose
\* integer or fractional digits denote more than the word maximum, succeeds at
\* exactly the maximum, and never returns a part that is not the number its
\* digits denote.
C4_ParseRejectsOverflow ==
    (res.err # "none" /\ WellFormed(input)) =>
        /\ ~InRange(input) => res.err = "ErrRange"
        /\ (ExactInt(input) = maxUnsignedInt64 /\ ExactFrac(input) = 0) => res.err = "nil"
        /\ res.err = "nil" =>
              /\ res.d.numerator = ExactInt(input)
              /\ res.d.denominator = ExactFrac(input)

\* C5: for in-range digits, ParseDecimal succeeds iff the input is well formed
\* (optional sign at position 0, digits, at most one separator, at least one
\* digit); otherwise it returns a syntax error and no Decimal; a separator
\* without following digits is accepted with fractional digit count 0.
C5_ParseSyntax ==
    (res.err # "none" /\ InRange(input)) =>
        /\ res.err = "nil" <=> WellFormed(input)
        /\ ~WellFormed(input) => (res.err = "ErrSyntax" /\ res.d = ZeroDecimal)
        /\ WellFormed(input) =>
              /\ res.d.Valid
              /\ res.d.denominatorDigits = FracWidth(input)

\* C5 witness: "12." was parsed, with digit count 0.
C5_Witness ==
    /\ input = <<"1", "2", ".">>
    /\ res.err = "nil"
    /\ res.d.numerator = 12
    /\ res.d.denominatorDigits = 0

\* C6: after any sequence of successful ParseDecimal, Add and Sub calls no
\* Decimal is a negative zero.
C6_ZeroIsNeverNegative ==
    ~(IsZero(a) /\ a.Negative) /\ ~(IsZero(b) /\ b.Negative)

\* C7: for parsed a and b, a.Cmp(b) is -1, 0 or +1 exactly when a denotes a
\* number less than, equal to or greater than b's, whatever the number of
\* fractional digits.
C7_CmpIsNumericOrder ==
    (Len(calls) >= 1 /\ calls[1].op = "Cmp" /\ calls[1].recv.Valid /\ calls[1].arg.Valid)
        => LET x == calls[1].recv
               y == calls[1].arg
               w == Width(x, y, y)
           IN  calls[1].r = Sign(Val(x, w) - Val(y, w))

\* C8: for parsed a and b, a.Cmp(b) = -(b.Cmp(a)).
C8_CmpAntisymmetric ==
    \A i \in 1 .. Len(calls) :
        (calls[i].op = "Cmp" /\ calls[i].recv.Valid /\ calls[i].arg.Valid)
            => calls[i].r = -Cmp(calls[i].arg, calls[i].recv)

\* C8 witness: a negative receiver compared with a non-negative argument of
\* smaller magnitude, found to be less.
C8_Witness ==
    /\ Len(calls) = 1 /\ calls[1].op = "Cmp"
    /\ a.Negative /\ ~b.Negative /\ b.Valid
    /\ a.numerator > b.numerator
    /\ calls[1].r = -1

\* C9: when a.Add(b) and the following a.Sub(b) both return nil, the receiver
\* denotes the same number as the original a (same sign, integer part and
\* fractional value).
C9_AddThenSubRestores ==
    (/\ Len(calls) = 2
     /\ calls[1].op = "Add" /\ calls[1].err = "nil"
     /\ calls[2].op = "Sub" /\ calls[2].err = "nil")
        => SameNumber(a, calls[1].recv)

\* C10: for parsed a and a parsed zero z, a.Add(z) returns nil and leaves a
\* with the same sign, integer part and fractional value.
C10_AddZeroIsIdentity ==
    (Len(calls) >= 1 /\ calls[1].op = "Add" /\ calls[1].recv.Valid /\ IsZero(calls[1].arg))
        => (calls[1].err = "nil" /\ SameNumber(After(1), calls[1].recv))

Abs(n) == IF n < 0 THEN -n ELSE n

\* d's fractional part scaled to w digits, as an unbounded integer.
FracAt(d, w) == d.denominator * Pow(10, w - d.denominatorDigits)

\* Scaling one of the fractional parts to the common width does not fit the word.
AlignWraps(d1, d2) ==
    LET w == Max(d1.denominatorDigits, d2.denominatorDigits) IN
    FracAt(d1, w) > maxUnsignedInt64 \/ FracAt(d2, w) > maxUnsignedInt64

\* Some unsigned step of d1.Add(d2), past the entry checks, has an exact
\* result outside the word: the scaling, a sum of the equal-sign branch, the
\* addition of the carry, or a difference of the opposite-sign branch.
AddStepWraps(d1, d2, conv) ==
    LET al == AddAlign(d1, d2, conv)
        c  == al.c
        s  == U(c.denominator + al.d2Denominator)
    IN  \/ AlignWraps(d1, d2)
        \/ /\ c.Negative = d2.Negative
           /\ \/ c.denominator + al.d2Denominator > maxUnsignedInt64
              \/ c.numerator + d2.numerator > maxUnsignedInt64
              \/ /\ printedLength(s) > al.d2DenomDigits
                 /\ Pow10U(c.denominatorDigits, conv) # 0
                 /\ U(c.numerator + d2.numerator)
                      + (s \div Pow10U(c.denominatorDigits, conv)) > maxUnsignedInt64
        \/ /\ c.Negative # d2.Negative
           /\ IF Cmp([c EXCEPT !.Negative = FALSE], [d2 EXCEPT !.Negative = FALSE]) >= 0
              THEN c.denominator < al.d2Denominator \/ c.numerator < d2.numerator
              ELSE al.d2Denominator < c.denominator \/ d2.numerator < c.numerator

\* The same for d1.Sub(d2): the scaling, a difference that no borrow makes up
\* for, or a step of the Add that Sub calls.
SubStepWraps(d1, d2, conv) ==
    IF ~d1.Negative /\ ~d2.Negative
    THEN LET al == SubAlign(d1, d2, conv) IN
         \/ AlignWraps(d1, d2)
         \/ /\ Cmp(al.c, d2) < 0
            /\ \/ al.d2Denominator < al.c.denominator
               \/ d2.numerator < al.c.numerator
    ELSE LET x == [d2 EXCEPT !.Negative = d1.Negative] IN
         ~AddBoundsFail(d1, x) /\ AddStepWraps(d1, x, conv)

\* The scratch value of a successful call of op just before the simplification.
Unsimplified(op, d1, d2, conv) ==
    IF op = "Sub" /\ ~d1.Negative /\ ~d2.Negative
    THEN SubCompute(d1, d2, conv)
    ELSE LET x == IF op = "Sub" THEN [d2 EXCEPT !.Negative = d1.Negative] ELSE d2
         IN  ZeroNotNegative(AddCompute(d1, x, conv).c)

\* C11: Add and Sub return a range error, and commit nothing, whenever an
\* unsigned step of the computation wraps (the scaling of a fractional part
\* during alignment, the sum or difference of the aligned fractional parts,
\* the sum of the integer parts, the addition of the carry); so after a nil
\* return no intermediate value has wrapped.
C11_WrapIsRangeError ==
    \A i \in 1 .. Len(calls) :
        LET x == calls[i].recv
            y == calls[i].arg
        IN  (/\ calls[i].op \in {"Add", "Sub"}
             /\ x.Valid /\ y.Valid
             /\ IF calls[i].op = "Add"
                THEN ~AddBoundsFail(x, y) /\ AddStepWraps(x, y, cv)
                ELSE SubStepWraps(x, y, cv))
                => (calls[i].err = "ErrRange" /\ After(i) = x)

\* C12: when a.Add(b) or a.Sub(b) returns, with or without an error, every
\* field of b, its sign included, has the value it had before the call.
C12_ArgumentUnchanged ==
    \A i \in 1 .. Len(calls) :
        (calls[i].op \in {"Add", "Sub"} /\ calls[i].err # "panic")
            => ArgAfter(i) = calls[i].arg

\* C12 witness: an Add of a negative argument to a non-negative receiver (the
\* branch that clears the argument's sign), then a Sub of operands of
\* different sign (the branch that overwrites it), both returned nil and the
\* argument is still negative.
C12_Witness ==
    /\ Len(calls) = 2
    /\ calls[1].op = "Add" /\ calls[1].err = "nil"
    /\ ~calls[1].recv.Negative /\ calls[1].arg.Negative
    /\ calls[2].op = "Sub" /\ calls[2].err = "nil"
    /\ ~calls[2].recv.Negative /\ calls[2].arg.Negative
    /\ b = calls[1].arg

\* C16: after every successful Add or Sub the receiver's fractional part is 0
\* or is not divisible by 10.
C16_NoTrailingZero ==
    \A i \in 1 .. Len(calls) :
        (calls[i].op \in {"Add", "Sub"} /\ calls[i].err = "nil")
            => (After(i).denominator = 0 \/ After(i).denominator % 10 # 0)

\* C16 witness: x.45 + y.05 made the fractional sum 50, stored as 5, and a
\* following Sub of the same argument succeeded as well.
C16_Witness ==
    /\ Len(calls) = 2
    /\ calls[1].op = "Add" /\ calls[1].err = "nil"
    /\ calls[1].recv.denominator = 45 /\ calls[1].recv.denominatorDigits = 2
    /\ calls[1].arg.denominator = 5 /\ calls[1].arg.denominatorDigits = 2
    /\ calls[1].recv.Negative = calls[1].arg.Negative
    /\ After(1).denominator = 5 /\ After(1).denominatorDigits = 1
    /\ calls[2].op = "Sub" /\ calls[2].err = "nil"

\* C17: Add and Sub return ErrNotValid whenever the receiver or the argument
\* is not valid, and neither operand has been written.
C17_NotValidFirst ==
    \A i \in 1 .. Len(calls) :
        (calls[i].op \in {"Add", "Sub"} /\ (~calls[i].recv.Valid \/ ~calls[i].arg.Valid))
            => /\ calls[i].err = "ErrNotValid"
               /\ After(i) = calls[i].recv
               /\ ArgAfter(i) = calls[i].arg

\* C17 witness: a valid receiver and an invalidated argument whose integer
\* parts would fail Add's range check; Add and then Sub returned ErrNotValid.
C17_Witness ==
    /\ Len(calls) = 2
    /\ calls[1].op = "Add" /\ calls[1].err = "ErrNotValid"
    /\ calls[2].op = "Sub" /\ calls[2].err = "ErrNotValid"
    /\ a.Valid /\ ~b.Valid
    /\ a.numerator + b.numerator > maxUnsignedInt64

\* C18: after a successful Add or Sub (none of whose steps wrapped) the
\* simplified fractional part and its digit count denote the same fraction as
\* the unsimplified result at the aligned width: only trailing zeros were
\* dropped, leading zeros are kept.
C18_DigitsKeepLeadingZeros ==
    \A i \in 1 .. Len(calls) :
        (/\ calls[i].op \in {"Add", "Sub"} /\ calls[i].err = "nil"
         /\ IF calls[i].op = "Add"
            THEN ~AddStepWraps(calls[i].recv, calls[i].arg, cv)
            ELSE ~SubStepWraps(calls[i].recv, calls[i].arg, cv))
            => LET u == Unsimplified(calls[i].op, calls[i].recv, calls[i].arg, cv)
                   w == Max(u.denominatorDigits, After(i).denominatorDigits)
               IN  FracAt(After(i), w) = FracAt(u, w)

\* C19: in Add with operands of opposite sign the magnitudes are compared at
\* the common width, whatever the two widths are, and the smaller is
\* subtracted from the larger: the result has the sign of the operand of
\* larger magnitude, and a zero result is non-negative.
C19_OppositeSignsAligned ==
    (/\ Len(calls) >= 1
     /\ calls[1].op = "Add" /\ calls[1].err = "nil"
     /\ calls[1].recv.Negative # calls[1].arg.Negative
     /\ ~AlignWraps(calls[1].recv, calls[1].arg))
        => LET x  == calls[1].recv
               y  == calls[1].arg
               w  == Width(x, y, y)
               mx == Abs(Val(x, w))
               my == Abs(Val(y, w))
           IN  /\ mx > my => After(1).Negative = x.Negative
               /\ mx < my => After(1).Negative = y.Negative
               /\ mx = my => ~After(1).Negative

\* C20: for non-negative a >= b whose aligned parts fit the word, a.Sub(b) works on the fractional parts at the
\* common width W: if a's is the smaller, the integer part is
\* a_int - b_int - 1 and the fractional part a_frac + 10^W - b_frac; otherwise
\* they are a_int - b_int and a_frac - b_frac.
C20_SubBorrowsAligned ==
    (/\ Len(calls) >= 1
     /\ calls[1].op = "Sub" /\ calls[1].err = "nil"
     /\ ~calls[1].recv.Negative /\ ~calls[1].arg.Negative
     /\ ~AlignWraps(calls[1].recv, calls[1].arg)
     /\ LET w == Width(calls[1].recv, calls[1].arg, calls[1].arg)
        IN  /\ Pow(10, w) <= maxUnsignedInt64
            /\ Val(calls[1].recv, w) >= Val(calls[1].arg, w))
        => LET x  == calls[1].recv
               y  == calls[1].arg
               w  == Width(x, y, y)
               u  == SubCompute(x, y, cv)
               af == FracAt(x, w)
               bf == FracAt(y, w)
           IN  /\ u.denominatorDigits = w
               /\ IF af < bf
                  THEN /\ u.numerator = x.numerator - y.numerator - 1
                       /\ u.denominator = af + Pow(10, w) - bf
                  ELSE /\ u.numerator = x.numerator - y.numerator
                       /\ u.denominator = af - bf

\* s is written [-]I.D: I without superfluous leading zero, D not empty, both
\* within the word, and s is not a negative zero.
Canonical(s) ==
    /\ WellFormed(s)
    /\ s[1] # "+"
    /\ LET from == IF s[1] = "-" THEN 2 ELSE 1
           dot  == SepAt(s)
       IN  /\ dot > from
           /\ dot < Len(s)
           /\ (dot - from = 1 \/ s[from] # "0")
    /\ InRange(s)
    /\ ~(s[1] = "-" /\ ExactInt(s) = 0 /\ ExactFrac(s) = 0)

\* s is written [-]I or [-]I. with the same conditions on I.
CanonicalInteger(s) ==
    /\ WellFormed(s)
    /\ s[1] # "+"
    /\ LET from == IF s[1] = "-" THEN 2 ELSE 1
           dot  == SepAt(s)
       IN  /\ dot > from
           /\ dot >= Len(s)
           /\ (dot - from = 1 \/ s[from] # "0")
    /\ InRange(s)
    /\ ~(s[1] = "-" /\ ExactInt(s) = 0)

\* C14: for s of the form [-]I.D (I not empty and without superfluous leading
\* zeros, D not empty, both within the word, s not a negative zero),
\* ParseDecimal(s).String() is s; an input without fractional digits ("12" or
\* "12.") renders with ".0" appended to its integer part; "-0.0" renders "0.0".
C14_ParseStringRoundTrip ==
    shown.fn = "String" =>
        /\ Canonical(input) => shown.s = input
        /\ CanonicalInteger(input)
              => shown.s = SubSeq(input, 1, SepAt(input) - 1) \o <<".", "0">>
        /\ input = <<"-", "0", ".", "0">> => shown.s = <<"0", ".", "0">>

\* C14 witness: "1.02" was parsed and rendered as "1.02", the zero after the
\* separator included.
C14_Witness ==
    /\ input = <<"1", ".", "0", "2">>
    /\ res.err = "nil"
    /\ shown = [fn |-> "String", s |-> <<"1", ".", "0", "2">>]

RECURSIVE Grouped(_)
\* The digits ds with a thousands separator before every group of three
\* digits counted from the right, none in front.
Grouped(ds) ==
    IF Len(ds) <= 3 THEN ds
    ELSE Grouped(SubSeq(ds, 1, Len(ds) - 3)) \o <<ThousandsSeparator>>
             \o SubSeq(ds, Len(ds) - 2, Len(ds))

\* C15: for a valid d, d.FormattedString() is d.String() with the thousands
\* separator inserted into the integer digits before every group of three
\* digits counted from the right (never in front, never next to the decimal
\* separator); the two are identical when the integer part is below 1000; the
\* sign and the fractional digits are the same.
C15_FormattedStringGroups ==
    shown.fn = "FormattedString" =>
        LET plain == String(res.d)
            from  == IF plain[1] = "-" THEN 2 ELSE 1
            dot   == SepAt(plain)
        IN  /\ shown.s = SubSeq(plain, 1, from - 1)
                           \o Grouped(SubSeq(plain, from, dot - 1))
                           \o SubSeq(plain, dot, Len(plain))
            /\ res.d.numerator < 1000 => shown.s = plain
            /\ shown.s[Len(shown.s)] # ThousandsSeparator
            /\ \A k \in 1 .. Len(shown.s) - 1 :
                  shown.s[k] = ThousandsSeparator
                      => /\ k > from
                         /\ shown.s[k + 1] \in DigitChars
                         /\ shown.s[k - 1] \in DigitChars

\* C15 witness: -1234567.01 was rendered as "-1,234,567.01".
C15_Witness ==
    /\ res.d.Negative /\ res.d.numerator = 1234567
    /\ shown = [fn |-> "FormattedString",
                s  |-> <<"-", "1", ",", "2", "3", "4", ",", "5", "6", "7",
                         ".", "0", "1">>]

\* What the call of goroutine l returns, and leaves in its receiver, when it
\* runs alone.
Sequential(l) ==
    IF l.op = "Add" THEN Add(l.d10, l.d20, cv) ELSE Sub(l.d10, l.d20, cv)

\* C13: while a.Add(b) or a.Sub(b) executes no field of b is written: b keeps
\* the value it had at the calls, two concurrent calls with receivers of their
\* own and the same b each end with the error and the receiver of a sequential
\* execution, and a concurrent reader never reads a sign that is not b's
\* original sign.
C13_ArgumentNeverWritten ==
    \A g \in DOMAIN gor :
        /\ b = gor[g].d20
        /\ seen \subseteq {gor[g].d20.Negative}
        /\ gor[g].pc = "done"
              => /\ gor[g].err = Sequential(gor[g]).err
                 /\ gor[g].d1 = Sequential(gor[g]).d

\* C21: when both operands of a.Sub(b) have the same sign, both negative
\* included, Sub subtracts the magnitudes instead of going through Add: the
\* result has magnitude | |a| - |b| |, a's sign if |a| > |b|, the opposite
\* sign if |a| < |b|, and is a non-negative zero if |a| = |b|. Stated here for
\* two negative operands.
C21_SameSignSubtractsMagnitudes ==
    (/\ Len(calls) >= 1
     /\ calls[1].op = "Sub" /\ calls[1].err = "nil"
     /\ calls[1].recv.Negative /\ calls[1].arg.Negative)
        => LET x  == calls[1].recv
               y  == calls[1].arg
               u  == Unsimplified("Sub", x, y, cv)
               w  == Width(x, y, u)
               mx == Abs(Val(x, w))
               my == Abs(Val(y, w))
           IN  /\ Abs(Val(u, w)) = Abs(mx - my)
               /\ mx > my => After(1).Negative = x.Negative
               /\ mx < my => After(1).Negative = ~x.Negative
               /\ mx = my => (IsZero(After(1)) /\ ~After(1).Negative)

\* The exact sum of the fractional parts of x and y at their common width.
FracSum(x, y) ==
    LET w == Max(x.denominatorDigits, y.denominatorDigits)
    IN  FracAt(x, w) + FracAt(y, w)

\* The exact integer part of x + y for operands of equal sign: the integer
\* parts and what the fractional sum carries.
IntSum(x, y) ==
    LET w == Max(x.denominatorDigits, y.denominatorDigits)
    IN  x.numerator + y.numerator + (FracSum(x, y) \div Pow(10, w))

\* No step of the equal-sign addition of x and y leaves the word.
SumFits(x, y) ==
    LET w == Max(x.denominatorDigits, y.denominatorDigits) IN
    /\ FracAt(x, w) <= maxUnsignedInt64
    /\ FracAt(y, w) <= maxUnsignedInt64
    /\ FracSum(x, y) <= maxUnsignedInt64
    /\ IntSum(x, y) <= maxUnsignedInt64

\* C22: in Add with operands of equal sign, aligned width W and aligned
\* fractional sum S, when nothing overflows the call returns nil and the
\* result before simplification has the integer part a_int + b_int + S div 10^W
\* and the fractional part S mod 10^W at width W; the carry is taken when the
\* printed length of S exceeds W, and then the divisor 10^W is the exact power
\* of ten: not zero and within the word.
C22_CarryAtAlignedWidth ==
    \A i \in 1 .. Len(calls) :
        LET x == calls[i].recv
            y == calls[i].arg
            w == Max(x.denominatorDigits, y.denominatorDigits)
            u == Unsimplified("Add", x, y, cv)
        IN  (/\ calls[i].op = "Add"
             /\ x.Valid /\ y.Valid
             /\ x.Negative = y.Negative
             /\ SumFits(x, y))
                => /\ calls[i].err = "nil"
                   /\ After(i).numerator = IntSum(x, y)
                   /\ u.denominator = FracSum(x, y) % Pow(10, w)
                   /\ u.denominatorDigits = w
                   /\ NatDigits(FracSum(x, y)) > w
                         => Pow10U(w, cv) = Pow(10, w)

\* C22 witness: two successful Adds of operands of equal sign, the first with
\* a fractional sum that carries into the integer part, the second with one
\* that does not.
C22_Witness ==
    /\ Len(calls) = 2
    /\ calls[1].op = "Add" /\ calls[1].err = "nil"
    /\ calls[2].op = "Add" /\ calls[2].err = "nil"
    /\ calls[1].recv.Negative = calls[1].arg.Negative
    /\ calls[2].recv.Negative = calls[2].arg.Negative
    /\ SumFits(calls[1].recv, calls[1].arg)
    /\ SumFits(calls[2].recv, calls[2].arg)
    /\ After(1).numerator = calls[1].recv.numerator + calls[1].arg.numerator + 1
    /\ a.numerator = calls[2].recv.numerator + calls[2].arg.numerator
    /\ calls[2].arg.denominator > 0

\* C23: for valid operands of opposite sign and equal fractional width,
\* a.Add(b) returns nil, never a range error, whatever the parts are, the word
\* maximum included.
C23_OppositeSignsNeverRange ==
    \A i \in 1 .. Len(calls) :
        (/\ calls[i].op = "Add"
         /\ calls[i].recv.Valid /\ calls[i].arg.Valid
         /\ calls[i].recv.Negative # calls[i].arg.Negative
         /\ calls[i].recv.denominatorDigits = calls[i].arg.denominatorDigits)
            => calls[i].err = "nil"

====
